---------------------------- MODULE Spec2Model ----------------------------
(***************************************************************************)
(* Model of the data-normalisation code of the job-market dashboard        *)
(* (src/dashboard.py): the salary normaliser normalize_and_clean_salary    *)
(* nested in load_data, and the skill canonicaliser process_skills; and of *)
(* what the script does with them: skills_count of a record, the skill     *)
(* reverse lookup (skill_in_row) and the pagination of its job list.       *)
(* Each part has its own specification: SalarySpec, SkillsSpec,            *)
(* RecordSpec, LookupSpec, PageSpec.                                       *)
(*                                                                         *)
(* Numbers.  A nullable pandas number is modelled as a sequence: << >> is  *)
(* NaN/None and <<n>> is the number n.  Salary inputs are whole currency   *)
(* amounts.  The code divides by 2 once and by 12 at most twice, so every  *)
(* computed figure is an exact multiple of 1/288; computed figures are     *)
(* kept as integers counting units of 1/Unit (Unit = 2*12*12), which makes *)
(* each division of the code exact in the model (ExactArithmetic).         *)
(*                                                                         *)
(* Text.  TLA+ strings are ASCII only and cannot be indexed, so            *)
(*   - the salary_type labels of the source are written in ASCII:          *)
(*       "annual" = 年薪, "daily" = 日薪, "hourly" = 時薪,                  *)
(*       "monthly" = 月薪, "negotiable" = 面議;                             *)
(*   - a skill token is a sequence of one-character strings, and the two   *)
(*     CJK characters of the key 'c語言' are written "U+8A9E", "U+8A00".    *)
(***************************************************************************)
EXTENDS Integers, Sequences, FiniteSets, TLC

VARIABLES
    phase,              \* which function the state belongs to, and whether it has returned
    row,                \* normalize_and_clean_salary: the DataFrame row it is applied to
    base_salary,        \* normalize_and_clean_salary: local base_salary
    normalized_salary,  \* normalize_and_clean_salary: local normalized_salary
    monthly_salary,     \* normalize_and_clean_salary: the value returned
    skills_list,        \* process_skills: the argument
    processed_skills,   \* process_skills: the list returned
    aggregated_skills,  \* load_data: one record's df["aggregated_skills"], nullable
    skills_count,       \* load_data: the record's df["skills_count"]
    page_number,        \* st.session_state.page_number
    current_skill,      \* st.session_state.current_skill
    selected_skill_lookup, \* the value of the reverse-lookup selectbox
    search_term,        \* the value of the text input search_<skill>
    selected_cities,    \* the value of the multiselect city_<skill>
    jobs_by_skill,      \* the number of rows of skill_lookup_df for each offered skill
    pagination,         \* the locals of the pagination block in the last run of the script
    last_event,         \* what caused the last run of the script
    required_skills,    \* df_filtered["required_skills"]: one nullable string per job
    skill_options,      \* the labels the reverse-lookup selectbox offers
    target_skill,       \* skill_in_row: the label looked up
    skill_lookup_df     \* the jobs (row numbers) skill_in_row selects

recordVars == <<aggregated_skills, skills_count>>

sessionVars == <<page_number, current_skill, selected_skill_lookup, search_term,
                 selected_cities, jobs_by_skill, pagination, last_event>>

lookupVars == <<required_skills, skill_options, target_skill, skill_lookup_df>>

\* The state of the dashboard script outside the two functions.
dashboardVars == <<recordVars, sessionVars, lookupVars>>

vars == <<phase, row, base_salary, normalized_salary, monthly_salary,
          skills_list, processed_skills, dashboardVars>>

(***************************************************************************)
(* Nullable numbers                                                        *)
(***************************************************************************)
NaN == << >>

Num(n) == <<n>>

isna(x) == x = NaN

notna(x) == x # NaN

Val(x) == x[1]

\* The value of a local that was never assigned (the function returned first):
\* a pair, so that it differs from NaN and from every number.
Unset == <<"not", "assigned">>

\* st.session_state.current_skill = None
NoSkill == "<None>"

\* The pagination block did not run: skill_lookup_df was empty, or the script
\* has not run yet.
NotPaginated ==
    [computed |-> FALSE, total_jobs |-> 0, total_pages |-> 0,
     start_idx |-> 0, end_idx |-> 0]

\* The parts of the dashboard state while another part is examined alone.
RecordIdle ==
    /\ aggregated_skills = NaN
    /\ skills_count = 0

SessionIdle ==
    /\ page_number = 0
    /\ current_skill = NoSkill
    /\ selected_skill_lookup = NoSkill
    /\ search_term = ""
    /\ selected_cities = {}
    /\ jobs_by_skill = << >>
    /\ pagination = NotPaginated
    /\ last_event = "none"

LookupIdle ==
    /\ required_skills = << >>
    /\ skill_options = {}
    /\ target_skill = << >>
    /\ skill_lookup_df = {}

DashboardIdle == RecordIdle /\ SessionIdle /\ LookupIdle

(***************************************************************************)
(* Bounds of the model and the inputs drawn from them                      *)
(***************************************************************************)
MaxDelta == 1

\* Amounts around which postings are drawn: the thresholds of the code, the
\* examples of the specification, and annual-scale figures on both sides of
\* 12 * 500000.
Anchors ==
    {0, 200, 1200, 2000, 2500, 20000, 25000, 30000, 40000, 60000,
     500000, 600000, 6000000, 6600000}

Amounts == {a + d : a \in Anchors, d \in 0..MaxDelta}

NoType == "<NA>"

SalaryTypes ==
    {"annual", "daily", "hourly", "monthly", "negotiable", "per-piece", NoType}

Rows ==
    [salary_min  : {NaN} \cup {Num(a) : a \in Amounts},
     salary_max  : {NaN} \cup {Num(a) : a \in Amounts},
     salary_type : SalaryTypes]

(***************************************************************************)
(* normalize_and_clean_salary                                              *)
(***************************************************************************)
\* Fixed-point denominator of the computed figures.
Unit == 2 * 12 * 12

MonthsPerYear == 12

DailyThreshold == 20000

DaysPerMonth == 22

HourlyThreshold == 2000

HoursPerMonth == 176

MonthlyCeiling == 500000

\* if pd.isna(salary_min): return None
SalaryMinMissing_ZeroIsNull(salary_min) ==
    isna(salary_min) \/ Val(salary_min) = 0

SalaryMinMissing(salary_min) == isna(salary_min)

\* base_salary = salary_min
\* if pd.notna(salary_max) and salary_max > salary_min:
\*     base_salary = (salary_min + salary_max) / 2
BaseSalary_AnyMax(salary_min, salary_max) ==
    IF notna(salary_max)
    THEN (Val(salary_min) + Val(salary_max)) * (Unit \div 2)
    ELSE Val(salary_min) * Unit

BaseSalary(salary_min, salary_max) ==
    IF notna(salary_max) /\ Val(salary_max) > Val(salary_min)
    THEN (Val(salary_min) + Val(salary_max)) * (Unit \div 2)
    ELSE Val(salary_min) * Unit

\* The if/elif chain on salary_type.
PeriodConversion_AnnualKept(base, salary_type) ==
    IF salary_type = "daily"
    THEN IF base > DailyThreshold * Unit THEN base ELSE base * DaysPerMonth
    ELSE IF salary_type = "hourly"
    THEN IF base > HourlyThreshold * Unit THEN base ELSE base * HoursPerMonth
    ELSE base

PeriodConversion_DailyInclusive(base, salary_type) ==
    IF salary_type = "annual"
    THEN base \div MonthsPerYear
    ELSE IF salary_type = "daily"
    THEN IF base >= DailyThreshold * Unit THEN base ELSE base * DaysPerMonth
    ELSE IF salary_type = "hourly"
    THEN IF base > HourlyThreshold * Unit THEN base ELSE base * HoursPerMonth
    ELSE base

PeriodConversion_HourlyInclusive(base, salary_type) ==
    IF salary_type = "annual"
    THEN base \div MonthsPerYear
    ELSE IF salary_type = "daily"
    THEN IF base > DailyThreshold * Unit THEN base ELSE base * DaysPerMonth
    ELSE IF salary_type = "hourly"
    THEN IF base >= HourlyThreshold * Unit THEN base ELSE base * HoursPerMonth
    ELSE base

PeriodConversion_ElseHourly(base, salary_type) ==
    IF salary_type = "annual"
    THEN base \div MonthsPerYear
    ELSE IF salary_type = "daily"
    THEN IF base > DailyThreshold * Unit THEN base ELSE base * DaysPerMonth
    ELSE IF salary_type \in {"hourly", "negotiable", NoType}
    THEN IF base > HourlyThreshold * Unit THEN base ELSE base * HoursPerMonth
    ELSE base

PeriodConversion(base, salary_type) ==
    IF salary_type = "annual"
    THEN base \div MonthsPerYear
    ELSE IF salary_type = "daily"
    THEN IF base > DailyThreshold * Unit THEN base ELSE base * DaysPerMonth
    ELSE IF salary_type = "hourly"
    THEN IF base > HourlyThreshold * Unit THEN base ELSE base * HoursPerMonth
    ELSE base

\* if pd.notna(normalized_salary) and normalized_salary > 500000:
\*     return normalized_salary / 12
\* return normalized_salary
RECURSIVE MagnitudeGuard_Repeated(_)
MagnitudeGuard_Repeated(v) ==
    IF v > MonthlyCeiling * Unit
    THEN MagnitudeGuard_Repeated(v \div MonthsPerYear)
    ELSE v

MagnitudeGuard(v) ==
    IF v > MonthlyCeiling * Unit THEN v \div MonthsPerYear ELSE v

\* def normalize_and_clean_salary(row): the early return for a missing
\* salary_min, else the three steps in order.  The record holds the two locals
\* as they stand at the return, and the value returned.
normalize_and_clean_salary(r) ==
    IF SalaryMinMissing(r.salary_min)
    THEN [base_salary |-> Unset, normalized_salary |-> Unset, result |-> NaN]
    ELSE LET b == BaseSalary(r.salary_min, r.salary_max)
             v == PeriodConversion(b, r.salary_type)
         IN  [base_salary       |-> Num(b),
              normalized_salary |-> Num(v),
              result            |-> Num(MagnitudeGuard(v))]

\* df["monthly_salary"] = df.apply(normalize_and_clean_salary, axis=1), for one
\* row of the frame.
ApplyNormalizeAndCleanSalary ==
    /\ phase = "salary_call"
    /\ phase' = "salary_done"
    /\ LET out == normalize_and_clean_salary(row)
       IN  /\ base_salary' = out.base_salary
           /\ normalized_salary' = out.normalized_salary
           /\ monthly_salary' = out.result
    /\ UNCHANGED <<row, skills_list, processed_skills, dashboardVars>>

SalaryInit ==
    /\ phase = "salary_call"
    /\ row \in Rows
    /\ base_salary = Unset
    /\ normalized_salary = Unset
    /\ monthly_salary = Unset
    /\ skills_list = << >>
    /\ processed_skills = << >>
    /\ DashboardIdle

SalaryNext == ApplyNormalizeAndCleanSalary

SalarySpec == SalaryInit /\ [][SalaryNext]_vars

(***************************************************************************)
(* Text: what str.strip and str.lower do to a token                        *)
(***************************************************************************)
Whitespace == {" ", "\t", "\n"}

UpperCase ==
    <<"A", "B", "C", "D", "E", "F", "G", "H", "I", "J", "K", "L", "M",
      "N", "O", "P", "Q", "R", "S", "T", "U", "V", "W", "X", "Y", "Z">>

LowerCase ==
    <<"a", "b", "c", "d", "e", "f", "g", "h", "i", "j", "k", "l", "m",
      "n", "o", "p", "q", "r", "s", "t", "u", "v", "w", "x", "y", "z">>

\* One character lowercased: the cased letters change, every other character
\* (digits, punctuation, CJK) is left as it is.
LowerChar(c) ==
    IF \E i \in DOMAIN UpperCase : UpperCase[i] = c
    THEN LowerCase[CHOOSE i \in DOMAIN UpperCase : UpperCase[i] = c]
    ELSE c

\* str.lower()
lower(s) == [i \in 1..Len(s) |-> LowerChar(s[i])]

\* str.strip(): leading and trailing whitespace removed, inner whitespace kept.
RECURSIVE lstrip(_)
lstrip(s) ==
    IF s # << >> /\ Head(s) \in Whitespace THEN lstrip(Tail(s)) ELSE s

RECURSIVE rstrip(_)
rstrip(s) ==
    IF s # << >> /\ s[Len(s)] \in Whitespace
    THEN rstrip(SubSeq(s, 1, Len(s) - 1))
    ELSE s

strip(s) == rstrip(lstrip(s))

(***************************************************************************)
(* process_skills                                                          *)
(***************************************************************************)
\* The table with 'node' given the label 'NodeJS', itself a spelling of the
\* key 'nodejs'.
skill_merge_map_Chained ==
       (<<"h", "t", "m", "l", "5">> :> <<"H", "T", "M", "L">>)
    @@ (<<"h", "t", "m", "l">> :> <<"H", "T", "M", "L">>)
    @@ (<<"g", "o">> :> <<"G", "o">>)
    @@ (<<"g", "o", "l", "a", "n", "g">> :> <<"G", "o">>)
    @@ (<<"r", "e", "s", "t", "f", "u", "l">> :> <<"R", "E", "S", "T", "f", "u", "l", " ", "A", "P", "I">>)
    @@ (<<"r", "e", "s", "t", "f", "u", "l", "a", "p", "i">> :> <<"R", "E", "S", "T", "f", "u", "l", " ", "A", "P", "I">>)
    @@ (<<"n", "o", "d", "e">> :> <<"N", "o", "d", "e", "J", "S">>)
    @@ (<<"n", "o", "d", "e", "j", "s">> :> <<"N", "o", "d", "e", ".", "j", "s">>)
    @@ (<<"c", "s", "s">> :> <<"C", "S", "S">>)
    @@ (<<"c", "s", "s", "3">> :> <<"C", "S", "S">>)
    @@ (<<"c", "U+8A9E", "U+8A00">> :> <<"C">>)

\* skill_merge_map: lowercased spelling -> canonical label.
skill_merge_map ==
       (<<"h", "t", "m", "l", "5">> :> <<"H", "T", "M", "L">>)
    @@ (<<"h", "t", "m", "l">> :> <<"H", "T", "M", "L">>)
    @@ (<<"g", "o">> :> <<"G", "o">>)
    @@ (<<"g", "o", "l", "a", "n", "g">> :> <<"G", "o">>)
    @@ (<<"r", "e", "s", "t", "f", "u", "l">> :> <<"R", "E", "S", "T", "f", "u", "l", " ", "A", "P", "I">>)
    @@ (<<"r", "e", "s", "t", "f", "u", "l", "a", "p", "i">> :> <<"R", "E", "S", "T", "f", "u", "l", " ", "A", "P", "I">>)
    @@ (<<"n", "o", "d", "e">> :> <<"N", "o", "d", "e", ".", "j", "s">>)
    @@ (<<"n", "o", "d", "e", "j", "s">> :> <<"N", "o", "d", "e", ".", "j", "s">>)
    @@ (<<"c", "s", "s">> :> <<"C", "S", "S">>)
    @@ (<<"c", "s", "s", "3">> :> <<"C", "S", "S">>)
    @@ (<<"c", "U+8A9E", "U+8A00">> :> <<"C">>)

\* excluded_skills: lowercased labels that are dropped.
excluded_skills ==
    {<<"g", "i", "t">>,
     <<"l", "i", "n", "u", "x">>,
     <<"a", "g", "i", "l", "e">>,
     <<"c", "i", "/", "c", "d">>,
     <<"g", "i", "t", "h", "u", "b">>,
     <<"g", "i", "t", "l", "a", "b">>,
     <<"j", "e", "n", "k", "i", "n", "s">>,
     <<"r", "e", "s", "t", "f", "u", "l", " ", "a", "p", "i">>,
     <<"s", "h", "e", "l", "l", " ", "s", "c", "r", "i", "p", "t">>,
     <<"s", "c", "r", "u", "m">>,
     <<"c">>}

\* skill_merge_map.get(s_lower, s_stripped)
MergeSkill_DefaultLower(s_lower, s_stripped) ==
    IF s_lower \in DOMAIN skill_merge_map THEN skill_merge_map[s_lower] ELSE s_lower

MergeSkill(s_lower, s_stripped) ==
    IF s_lower \in DOMAIN skill_merge_map THEN skill_merge_map[s_lower] ELSE s_stripped

\* The body of the for loop for one element s of skills_list: what it appends
\* to processed_skills (one label, or nothing).
ProcessToken_ExcludeRaw(s) ==
    LET s_stripped == strip(s)
        s_lower    == lower(s_stripped)
    IN  IF s_lower # << >> /\ s_lower \notin excluded_skills
        THEN <<MergeSkill(s_lower, s_stripped)>>
        ELSE << >>

ProcessToken(s) ==
    LET s_stripped == strip(s)
        s_lower    == lower(s_stripped)
    IN  IF s_lower # << >>
        THEN LET s_merged == MergeSkill(s_lower, s_stripped)
             IN  IF lower(s_merged) \notin excluded_skills
                 THEN <<s_merged>>
                 ELSE << >>
        ELSE << >>

\* The for loop from element i on, with processed_skills as built so far.
RECURSIVE ProcessLoop(_, _, _)
ProcessLoop(xs, i, acc) ==
    IF i > Len(xs) THEN acc ELSE ProcessLoop(xs, i + 1, acc \o ProcessToken(xs[i]))

\* The loop with a membership test before the append: a set, not a map.
RECURSIVE DedupLoop(_, _, _)
DedupLoop(xs, i, acc) ==
    IF i > Len(xs)
    THEN acc
    ELSE LET out == ProcessToken(xs[i])
         IN  DedupLoop(xs, i + 1,
                       IF out # << >> /\ \E j \in DOMAIN acc : acc[j] = out[1]
                       THEN acc
                       ELSE acc \o out)

process_skills_Dedup(xs) == DedupLoop(xs, 1, << >>)

\* def process_skills(skills_list)
process_skills(xs) == ProcessLoop(xs, 1, << >>)

\* Raw tokens as str.split(",") leaves them: spellings of the aliases in
\* several casings, excluded words, plain skills, padding, empty segments.
Tokens ==
    {<<"N", "o", "d", "e">>,
     <<" ", "n", "o", "d", "e", "J", "S">>,
     <<" ", "C", "S", "S", "3">>,
     <<" ", "g", "i", "t">>,
     <<" ", "C">>,
     << >>,
     <<" ">>,
     <<"P", "y", "t", "h", "o", "n">>,
     <<" ", "J", "a", "v", "a", " ">>,
     <<"r", "e", "s", "t", "f", "u", "l">>,
     <<" ", "R", "E", "S", "T", "f", "u", "l", "A", "P", "I">>,
     <<"C", "U+8A9E", "U+8A00">>,
     <<"R", "E", "S", "T", "f", "u", "l", " ", "A", "P", "I">>,
     <<"g", "o", "l", "a", "n", "g">>,
     <<" ", "G", "o">>,
     <<"H", "T", "M", "L", "5">>,
     <<" ", "G", "i", "t", "H", "u", "b">>,
     <<"p", "y", "t", "h", "o", "n">>}

\* "Node, nodeJS, CSS3, git, C".split(",")
ExampleSkills ==
    <<<<"N", "o", "d", "e">>,
      <<" ", "n", "o", "d", "e", "J", "S">>,
      <<" ", "C", "S", "S", "3">>,
      <<" ", "g", "i", "t">>,
      <<" ", "C">>>>

MaxSkills == 2

RECURSIVE SeqsUpTo(_, _)
SeqsUpTo(S, n) ==
    IF n = 0
    THEN {<< >>}
    ELSE LET shorter == SeqsUpTo(S, n - 1)
         IN  shorter \cup {Append(xs, t) : xs \in shorter, t \in S}

SkillLists == SeqsUpTo(Tokens, MaxSkills) \cup {ExampleSkills}

\* processed = process_skills(raw), at one of its call sites.
CallProcessSkills ==
    /\ phase = "skills_call"
    /\ phase' = "skills_done"
    /\ processed_skills' = process_skills(skills_list)
    /\ UNCHANGED <<row, base_salary, normalized_salary, monthly_salary, skills_list,
                   dashboardVars>>

SkillsInit ==
    /\ phase = "skills_call"
    /\ skills_list \in SkillLists
    /\ processed_skills = << >>
    /\ row = [salary_min |-> NaN, salary_max |-> NaN, salary_type |-> NoType]
    /\ base_salary = Unset
    /\ normalized_salary = Unset
    /\ monthly_salary = Unset
    /\ DashboardIdle

SkillsNext == CallProcessSkills

SkillsSpec == SkillsInit /\ [][SkillsNext]_vars

(***************************************************************************)
(* One record: skills_count in load_data, and its canonical skills         *)
(***************************************************************************)
\* A nullable string is << >> (None) or <<s>>, s a sequence of characters.
Str(s) == <<s>>

\* str.split(","): the segments between the commas; "" gives [""].
RECURSIVE SplitFrom(_, _, _)
SplitFrom(s, i, seg) ==
    IF i > Len(s)
    THEN <<seg>>
    ELSE IF s[i] = ","
    THEN <<seg>> \o SplitFrom(s, i + 1, << >>)
    ELSE SplitFrom(s, i + 1, Append(seg, s[i]))

split(s) == SplitFrom(s, 1, << >>)

\* ",".join(xs)
RECURSIVE join(_)
join(xs) ==
    IF xs = << >> THEN << >>
    ELSE IF Len(xs) = 1 THEN xs[1]
    ELSE xs[1] \o <<",">> \o join(Tail(xs))

\* "Python, , Java"
PythonJava ==
    <<"P", "y", "t", "h", "o", "n", ",", " ", ",", " ", "J", "a", "v", "a">>

\* The skill strings of the records: GROUP_CONCAT of the bounded token
\* lists, the doubled-delimiter example, and NULL for a job with no skill.
SkillStrings ==
    {NaN} \cup {Str(join(xs)) : xs \in SkillLists} \cup {Str(PythonJava)}

\* Series.fillna("")
fillna(x) == IF isna(x) THEN << >> ELSE Val(x)

\* lambda x: len(x.split(",")) if x else 0, counting the segments that hold
\* a skill instead of all of them.
SkillsCount_NonEmpty(x) ==
    Len(SelectSeq(split(x), LAMBDA seg : strip(seg) # << >>))

\* lambda x: len(x.split(",")) if x else 0
SkillsCount(x) == IF x # << >> THEN Len(split(x)) ELSE 0

\* df["skills_count"] = df["aggregated_skills"].fillna("").apply(...), for one
\* record.
LoadSkillsCount ==
    /\ phase = "record_load"
    /\ phase' = "record_loaded"
    /\ skills_count' = SkillsCount(fillna(aggregated_skills))
    /\ UNCHANGED <<row, base_salary, normalized_salary, monthly_salary,
                   skills_list, processed_skills, aggregated_skills, sessionVars,
                   lookupVars>>

\* The record in the per-row loop of the skill salary analysis:
\* dropna(subset=['required_skills', ...]) leaves a record with no skill
\* string out; for any other, skills_raw = row['required_skills'].split(',')
\* and skills = process_skills(skills_raw).
RowSkills ==
    /\ phase = "record_loaded"
    /\ phase' = "record_done"
    /\ IF isna(aggregated_skills)
       THEN UNCHANGED <<skills_list, processed_skills>>
       ELSE /\ skills_list' = split(Val(aggregated_skills))
            /\ processed_skills' = process_skills(skills_list')
    /\ UNCHANGED <<row, base_salary, normalized_salary, monthly_salary,
                   dashboardVars>>

RecordInit ==
    /\ phase = "record_load"
    /\ aggregated_skills \in SkillStrings
    /\ skills_count = 0
    /\ skills_list = << >>
    /\ processed_skills = << >>
    /\ row = [salary_min |-> NaN, salary_max |-> NaN, salary_type |-> NoType]
    /\ base_salary = Unset
    /\ normalized_salary = Unset
    /\ monthly_salary = Unset
    /\ SessionIdle
    /\ LookupIdle

RecordNext == LoadSkillsCount \/ RowSkills

RecordSpec == RecordInit /\ [][RecordNext]_vars

(***************************************************************************)
(* The job list of the skill reverse lookup: filters and pagination        *)
(*                                                                         *)
(* Streamlit runs the script from the top on every interaction; a state of *)
(* this part is the session state, the widget values and the locals of     *)
(* the pagination block as the last run left them.  The rows of             *)
(* skill_lookup_df are numbered 1..jobs_by_skill[skill]; row i is in city   *)
(* JobCity(i) and its title or company matches a search term as             *)
(* JobMatches(i, term) says.                                               *)
(***************************************************************************)
MaxJobs == 11

page_size == 5

\* The labels offered by the selectbox; 'Java' is the default when offered.
SkillOptions == {"Java", "Node.js"}

default_skill == "Java"

SearchTerms == {"", "engineer"}

Cities == {"Taipei", "Hsinchu"}

JobCity(i) == IF i % 2 = 0 THEN "Taipei" ELSE "Hsinchu"

\* str.contains(search_term, case=False) on job_title or company_name.
JobMatches(i, term) == i % 3 = 0

\* The rows of skill_lookup_df for the selected skill.
LookupJobs(skill) == 1..jobs_by_skill[skill]

\* available_cities = sorted(skill_lookup_df['city'].dropna().unique())
AvailableCities(skill) == {JobCity(i) : i \in LookupJobs(skill)}

\* filtered_jobs: the search filter when search_term is not empty, the city
\* filter when selected_cities is not empty.
FilteredJobs(skill, term, cities) ==
    {i \in LookupJobs(skill) :
        /\ (term # "" => JobMatches(i, term))
        /\ (cities # {} => JobCity(i) \in cities)}

\* The reset with the assignment to page_number left out.
PaginationLogic_NoReset(pn, cs, selected) ==
    [page_number |-> pn, current_skill |-> selected]

\* if st.session_state.current_skill != selected_skill_lookup:
\*     st.session_state.page_number = 0
\*     st.session_state.current_skill = selected_skill_lookup
PaginationLogic(pn, cs, selected) ==
    IF cs # selected
    THEN [page_number |-> 0, current_skill |-> selected]
    ELSE [page_number |-> pn, current_skill |-> cs]

\* total_pages = (total_jobs // page_size) + (1 if total_jobs % page_size > 0 else 0)
TotalPages(total_jobs) ==
    (total_jobs \div page_size) + (IF total_jobs % page_size > 0 THEN 1 ELSE 0)

Min(a, b) == IF a < b THEN a ELSE b

Max(a, b) == IF a > b THEN a ELSE b

\* The locals of the pagination block for page pn of total_jobs jobs.
PageSlice(pn, total_jobs) ==
    [computed    |-> TRUE,
     total_jobs  |-> total_jobs,
     total_pages |-> TotalPages(total_jobs),
     start_idx   |-> pn * page_size,
     end_idx     |-> Min(pn * page_size + page_size, total_jobs)]

\* len(filtered_jobs.iloc[start_idx:end_idx])
PaginatedJobs(pg) == Max(pg.end_idx - pg.start_idx, 0)

\* One run of the script from the selectbox to the page slice, from the
\* session state (pn, cs) and the widget values: what it leaves in the
\* session state, and the locals of the pagination block.  An empty
\* skill_lookup_df takes the else branch and the block does not run.
RunScript(selected, term, cities, pn, cs) ==
    IF jobs_by_skill[selected] = 0
    THEN [page_number |-> pn, current_skill |-> cs, pagination |-> NotPaginated]
    ELSE LET ss == PaginationLogic(pn, cs, selected)
             total_jobs == Cardinality(FilteredJobs(selected, term, cities))
         IN  [page_number   |-> ss.page_number,
              current_skill |-> ss.current_skill,
              pagination    |-> PageSlice(ss.page_number, total_jobs)]

\* if total_pages > 1: ... if st.session_state.page_number > 0: st.button(previous)
ShowPrevious(pn, pg) == pg.computed /\ pg.total_pages > 1 /\ pn > 0

\* if total_pages > 1: ... if st.session_state.page_number < total_pages - 1: st.button(next)
ShowNext(pn, pg) == pg.computed /\ pg.total_pages > 1 /\ pn < pg.total_pages - 1

\* st.session_state.page_number -= 1
PreviousPage(pn) == pn - 1

\* st.session_state.page_number += 1
NextPage(pn) == pn + 1

\* The state a run of the script leaves.
Shown(run, event) ==
    /\ page_number' = run.page_number
    /\ current_skill' = run.current_skill
    /\ pagination' = run.pagination
    /\ last_event' = event
    /\ UNCHANGED <<row, base_salary, normalized_salary, monthly_salary,
                   skills_list, processed_skills, recordVars, jobs_by_skill,
                   lookupVars>>

\* The first run of a session: every widget at its default.
FirstRun ==
    /\ phase = "page_start"
    /\ phase' = "page_shown"
    /\ UNCHANGED <<selected_skill_lookup, search_term, selected_cities>>
    /\ Shown(RunScript(selected_skill_lookup, search_term, selected_cities,
                       page_number, current_skill), "first")

\* The user picks another skill: the filter widgets of the new skill have
\* their own keys and start empty.
SelectSkill ==
    /\ phase = "page_shown"
    /\ \E skill \in SkillOptions \ {selected_skill_lookup} :
          /\ selected_skill_lookup' = skill
          /\ search_term' = ""
          /\ selected_cities' = {}
          /\ Shown(RunScript(skill, "", {}, page_number, current_skill), "select")
    /\ UNCHANGED phase

\* The user changes the search term of the job list.
ChangeSearch ==
    /\ phase = "page_shown"
    /\ jobs_by_skill[selected_skill_lookup] > 0
    /\ \E term \in SearchTerms \ {search_term} :
          /\ search_term' = term
          /\ Shown(RunScript(selected_skill_lookup, term, selected_cities,
                             page_number, current_skill), "search")
    /\ UNCHANGED <<phase, selected_skill_lookup, selected_cities>>

\* The user changes the city filter of the job list.
ChangeCities ==
    /\ phase = "page_shown"
    /\ jobs_by_skill[selected_skill_lookup] > 0
    /\ \E cities \in (SUBSET AvailableCities(selected_skill_lookup)) \ {selected_cities} :
          /\ selected_cities' = cities
          /\ Shown(RunScript(selected_skill_lookup, search_term, cities,
                             page_number, current_skill), "cities")
    /\ UNCHANGED <<phase, selected_skill_lookup, search_term>>

\* The user presses the previous button the last run showed: the run that
\* handles the press reaches the button, decrements and calls st.rerun(); the
\* state is the one the run after it leaves.
PressPrevious ==
    /\ phase = "page_shown"
    /\ ShowPrevious(page_number, pagination)
    /\ LET run == RunScript(selected_skill_lookup, search_term, selected_cities,
                            page_number, current_skill)
       IN  /\ ShowPrevious(run.page_number, run.pagination)
           /\ Shown(RunScript(selected_skill_lookup, search_term, selected_cities,
                              PreviousPage(run.page_number), run.current_skill),
                    "previous")
    /\ UNCHANGED <<phase, selected_skill_lookup, search_term, selected_cities>>

\* The user presses the next button the last run showed.
PressNext ==
    /\ phase = "page_shown"
    /\ ShowNext(page_number, pagination)
    /\ LET run == RunScript(selected_skill_lookup, search_term, selected_cities,
                            page_number, current_skill)
       IN  /\ ShowNext(run.page_number, run.pagination)
           /\ Shown(RunScript(selected_skill_lookup, search_term, selected_cities,
                              NextPage(run.page_number), run.current_skill),
                    "next")
    /\ UNCHANGED <<phase, selected_skill_lookup, search_term, selected_cities>>

\* if 'page_number' not in st.session_state: st.session_state.page_number = 0
\* if 'current_skill' not in st.session_state: st.session_state.current_skill = None
PageInit ==
    /\ phase = "page_start"
    /\ page_number = 0
    /\ current_skill = NoSkill
    /\ selected_skill_lookup = default_skill
    /\ search_term = ""
    /\ selected_cities = {}
    /\ jobs_by_skill \in [SkillOptions -> 0..MaxJobs]
    /\ pagination = NotPaginated
    /\ last_event = "none"
    /\ row = [salary_min |-> NaN, salary_max |-> NaN, salary_type |-> NoType]
    /\ base_salary = Unset
    /\ normalized_salary = Unset
    /\ monthly_salary = Unset
    /\ skills_list = << >>
    /\ processed_skills = << >>
    /\ RecordIdle
    /\ LookupIdle

PageNext ==
    \/ FirstRun
    \/ SelectSkill
    \/ ChangeSearch
    \/ ChangeCities
    \/ PressPrevious
    \/ PressNext

PageSpec == PageInit /\ [][PageNext]_vars

(***************************************************************************)
(* The skill reverse lookup: the labels offered and the jobs found         *)
(***************************************************************************)
MaxRows == 2

top_n == 50

\* Raw tokens of the skill strings of df_filtered.
LookupTokens ==
    {<<"n", "o", "d", "e", "J", "S">>,
     <<" ", "N", "o", "d", "e", ".", "j", "s">>,
     <<"P", "y", "t", "h", "o", "n">>,
     <<" ", "j", "a", "v", "a">>,
     <<"H", "T", "M", "L", "5">>,
     <<" ", "g", "i", "t">>,
     << >>}

\* The required_skills column of df_filtered: up to MaxRows jobs, each with
\* no skill string or one of up to MaxRows tokens.
LookupStrings ==
    {NaN} \cup {Str(join(xs)) : xs \in SeqsUpTo(LookupTokens, MaxRows) \ {<< >>}}

LookupColumns == SeqsUpTo(LookupStrings, MaxRows) \ {<< >>}

\* Series.dropna()
dropna(column) == SelectSeq(column, LAMBDA x : notna(x))

\* df_filtered["required_skills"].dropna().str.cat(sep=",").split(",")
AllSkillsFlatRaw(column) ==
    split(join([i \in 1..Len(dropna(column)) |-> Val(dropna(column)[i])]))

\* Counter(all_skills_flat).most_common(n): the n labels of highest count, a
\* tie going to the label counted first.
MostCommon(flat, n) ==
    LET Count(l) == Cardinality({i \in DOMAIN flat : flat[i] = l})
        First(l) == CHOOSE i \in DOMAIN flat :
                        flat[i] = l /\ \A j \in 1..(i - 1) : flat[j] # l
        Labels   == {flat[i] : i \in DOMAIN flat}
        Before(l) == {m \in Labels :
                         \/ Count(m) > Count(l)
                         \/ Count(m) = Count(l) /\ First(m) < First(l)}
    IN  {l \in Labels : Cardinality(Before(l)) < n}

\* skill_options = sorted(top_50_skills), as the set of the labels offered.
SkillOptionsOf(column) ==
    MostCommon(process_skills(AllSkillsFlatRaw(column)), top_n)

\* def skill_in_row(skill_list_str, target_skill)
skill_in_row(skill_list_str, target) ==
    IF isna(skill_list_str)
    THEN FALSE
    ELSE LET raw    == split(Val(skill_list_str))
             skills == [i \in DOMAIN raw |-> lower(strip(raw[i]))]
         IN  \E i \in DOMAIN skills : skills[i] = lower(target)

\* The script builds the options of the selectbox from df_filtered.
BuildSkillOptions ==
    /\ phase = "lookup_start"
    /\ phase' = "lookup_offered"
    /\ skill_options' = SkillOptionsOf(required_skills)
    /\ UNCHANGED <<row, base_salary, normalized_salary, monthly_salary,
                   skills_list, processed_skills, recordVars, sessionVars,
                   required_skills, target_skill, skill_lookup_df>>

\* A label of the selectbox is selected and the jobs are looked up:
\* skill_lookup_df = df_filtered[required_skills.apply(skill_in_row)].
LookupSkill ==
    /\ phase = "lookup_offered"
    /\ phase' = "lookup_done"
    /\ \E label \in skill_options :
          /\ target_skill' = label
          /\ skill_lookup_df' =
                 {i \in DOMAIN required_skills : skill_in_row(required_skills[i], label)}
    /\ UNCHANGED <<row, base_salary, normalized_salary, monthly_salary,
                   skills_list, processed_skills, recordVars, sessionVars,
                   required_skills, skill_options>>

LookupInit ==
    /\ phase = "lookup_start"
    /\ required_skills \in LookupColumns
    /\ skill_options = {}
    /\ target_skill = << >>
    /\ skill_lookup_df = {}
    /\ row = [salary_min |-> NaN, salary_max |-> NaN, salary_type |-> NoType]
    /\ base_salary = Unset
    /\ normalized_salary = Unset
    /\ monthly_salary = Unset
    /\ skills_list = << >>
    /\ processed_skills = << >>
    /\ RecordIdle
    /\ SessionIdle

LookupNext == BuildSkillOptions \/ LookupSkill

LookupSpec == LookupInit /\ [][LookupNext]_vars

(***************************************************************************)
(* Properties of normalize_and_clean_salary                                *)
(***************************************************************************)
SalaryDone == phase = "salary_done"

SalaryComputed == SalaryDone /\ notna(row.salary_min)

\* A non-null computed figure: a one-element sequence holding an integer.
IsNumber(x) == Len(x) = 1 /\ Val(x) \in Int

\* m is exactly v/12, and b is exactly (lo + hi)/2, in fixed point (written
\* with the quotient so that no product leaves TLC's 32-bit integers).
Twelfth(m, v) == v % MonthsPerYear = 0 /\ m = v \div MonthsPerYear

Midpoint(b, lo, hi) == Unit % 2 = 0 /\ b = (lo + hi) * (Unit \div 2)

\* salary_max is present and strictly greater than salary_min.
ValidRange(r) ==
    notna(r.salary_max) /\ Val(r.salary_max) > Val(r.salary_min)

\* Model sanity: every division the code performed was exact in fixed point,
\* so the integers of the model are the numbers the code computes.
ExactArithmetic ==
    SalaryComputed =>
        LET b == Val(base_salary)
            v == Val(normalized_salary)
            m == Val(monthly_salary)
        IN  /\ (ValidRange(row) => Midpoint(b, Val(row.salary_min), Val(row.salary_max)))
            /\ (row.salary_type = "annual" => Twelfth(v, b))
            /\ (m # v => Twelfth(m, v))

\* C1: normalize_and_clean_salary returns null if and only if salary_min is
\* null: a null salary_min gives null whatever salary_max and salary_type
\* are, and every non-null salary_min (0 included) gives a non-null number.
C1_NullIffSalaryMinNull ==
    SalaryDone =>
        /\ (isna(row.salary_min) => monthly_salary = NaN)
        /\ (notna(row.salary_min) => IsNumber(monthly_salary))

C1_Witness ==
    /\ SalaryDone
    /\ row.salary_min = Num(0)
    /\ row.salary_max = NaN
    /\ monthly_salary = Num(0)

\* C2: with v the figure after period conversion, the value returned is v/12
\* when v > 500,000 and exactly v when v <= 500,000; the division happens
\* once and its result is not checked again.
C2_MagnitudeGuardOnce ==
    SalaryComputed =>
        LET v == Val(normalized_salary)
            m == Val(monthly_salary)
        IN  /\ (v > MonthlyCeiling * Unit => Twelfth(m, v))
            /\ (v <= MonthlyCeiling * Unit => m = v)

C2_Witness ==
    /\ SalaryComputed
    /\ Val(normalized_salary) > MonthlyCeiling * Unit
    /\ Twelfth(Val(monthly_salary), Val(normalized_salary))
    /\ Val(monthly_salary) > MonthlyCeiling * Unit

\* The base amount as C3 words it, in fixed point: the midpoint of a valid
\* range, salary_min otherwise.
RangeBase(r) ==
    IF ValidRange(r)
    THEN (Val(r.salary_min) + Val(r.salary_max)) * (Unit \div 2)
    ELSE Val(r.salary_min) * Unit

\* C3 as stated: for the annual label and a non-null salary_min the output
\* equals base/12.
C3_AnnualIsBaseOver12 ==
    (SalaryComputed /\ row.salary_type = "annual") =>
        Twelfth(Val(monthly_salary), RangeBase(row))

\* C3 as amended: for the annual label and a non-null salary_min the output
\* equals base/12 when base/12 <= 500,000, and base/12/12 when base/12
\* exceeds 500,000 (the magnitude guard applies to annual figures too).
C3_AnnualThenGuard ==
    (SalaryComputed /\ row.salary_type = "annual") =>
        LET m == Val(monthly_salary)
            b == RangeBase(row)
        IN  IF b > MonthlyCeiling * MonthsPerYear * Unit
            THEN \E v \in {b \div MonthsPerYear} : Twelfth(v, b) /\ Twelfth(m, v)
            ELSE Twelfth(m, b)

C3_Witness ==
    /\ SalaryComputed
    /\ row.salary_type = "annual"
    /\ RangeBase(row) > MonthlyCeiling * MonthsPerYear * Unit
    /\ Val(monthly_salary) = (RangeBase(row) \div MonthsPerYear) \div MonthsPerYear

\* C4: for non-null salary_min the base amount is the midpoint
\* (salary_min + salary_max)/2 when salary_max is present and strictly
\* greater than salary_min, and salary_min alone when salary_max is null,
\* equal to salary_min or less than salary_min.
C4_BaseAmountSelection ==
    SalaryComputed =>
        LET lo == Val(row.salary_min)
            b  == Val(base_salary)
        IN  /\ (ValidRange(row) => Midpoint(b, lo, Val(row.salary_max)))
            /\ (isna(row.salary_max) => b = lo * Unit)
            /\ ((notna(row.salary_max) /\ Val(row.salary_max) <= lo) => b = lo * Unit)

C4_Witness ==
    /\ SalaryComputed
    /\ row.salary_min = Num(40000)
    /\ row.salary_max = Num(30000)
    /\ base_salary = Num(40000 * Unit)

\* C5: for the daily label a base amount strictly above 20,000 goes to the
\* magnitude guard unchanged, and a base amount of at most 20,000 (20,000
\* included) is multiplied by 22 first; 25000 gives 25000, 1200 gives 26400.
C5_DailyConversion ==
    (SalaryComputed /\ row.salary_type = "daily") =>
        LET b == Val(base_salary)
            v == Val(normalized_salary)
        IN  /\ (b > DailyThreshold * Unit => v = b)
            /\ (b <= DailyThreshold * Unit => v = b * DaysPerMonth)
            /\ ((row.salary_min = Num(25000) /\ row.salary_max = NaN)
                    => monthly_salary = Num(25000 * Unit))
            /\ ((row.salary_min = Num(1200) /\ row.salary_max = NaN)
                    => monthly_salary = Num(26400 * Unit))

C5_Witness ==
    /\ SalaryComputed
    /\ row.salary_type = "daily"
    /\ base_salary = Num(DailyThreshold * Unit)
    /\ monthly_salary = Num(440000 * Unit)

\* C6: for the hourly label a base amount strictly above 2,000 goes to the
\* magnitude guard unchanged, and a base amount of at most 2,000 (2,000
\* included) is multiplied by 176 first; 2500 gives 2500, 200 gives 35200.
C6_HourlyConversion ==
    (SalaryComputed /\ row.salary_type = "hourly") =>
        LET b == Val(base_salary)
            v == Val(normalized_salary)
        IN  /\ (b > HourlyThreshold * Unit => v = b)
            /\ (b <= HourlyThreshold * Unit => v = b * HoursPerMonth)
            /\ ((row.salary_min = Num(2500) /\ row.salary_max = NaN)
                    => monthly_salary = Num(2500 * Unit))
            /\ ((row.salary_min = Num(200) /\ row.salary_max = NaN)
                    => monthly_salary = Num(35200 * Unit))

C6_Witness ==
    /\ SalaryComputed
    /\ row.salary_type = "hourly"
    /\ base_salary = Num(HourlyThreshold * Unit)
    /\ monthly_salary = Num(352000 * Unit)

\* C7: for every salary_type other than annual, daily and hourly (monthly,
\* negotiable, an unrecognised label, a missing type) and non-null
\* salary_min, the base amount is converted by the identity and the
\* magnitude guard still applies: the result is the base amount when it is
\* <= 500,000 and base/12 when it is > 500,000, the same as for the monthly
\* label on the same amounts.
C7_OtherTypesAsMonthly ==
    (SalaryComputed /\ row.salary_type \notin {"annual", "daily", "hourly"}) =>
        LET b == Val(base_salary)
            m == Val(monthly_salary)
        IN  /\ normalized_salary = base_salary
            /\ (b <= MonthlyCeiling * Unit => m = b)
            /\ (b > MonthlyCeiling * Unit => Twelfth(m, b))
            /\ monthly_salary =
                   normalize_and_clean_salary(
                       [row EXCEPT !.salary_type = "monthly"]).result

C7_Witness ==
    /\ SalaryComputed
    /\ row.salary_type = NoType
    /\ Val(base_salary) > MonthlyCeiling * Unit
    /\ Twelfth(Val(monthly_salary), Val(base_salary))


(***************************************************************************)
(* Properties of process_skills                                            *)
(***************************************************************************)
SkillsDone == phase = "skills_done"

NodeJs == <<"N", "o", "d", "e", ".", "j", "s">>

Css == <<"C", "S", "S">>

\* The per-token reference map of C8: the label a token is emitted as, or
\* << >> when the token is dropped (no label is empty).
RefLabel(t) ==
    LET trimmed == strip(t)
        label   == IF lower(trimmed) \in DOMAIN skill_merge_map
                   THEN skill_merge_map[lower(trimmed)]
                   ELSE trimmed
    IN  IF trimmed = << >> \/ lower(label) \in excluded_skills
        THEN << >>
        ELSE label

RefMap(xs) ==
    SelectSeq([i \in 1..Len(xs) |-> RefLabel(xs[i])], LAMBDA l : l # << >>)

\* C8: process_skills equals the per-token reference map on every token
\* list: trim; drop a token that is empty after trimming; replace a token
\* whose lowercased form is a key of skill_merge_map by the table's label and
\* keep any other token as trimmed, in its own casing; drop the token when
\* the lowercased label is in excluded_skills.  "Node, nodeJS, CSS3, git, C"
\* gives ["Node.js", "Node.js", "CSS"].
C8_EqualsReferenceMap ==
    SkillsDone =>
        /\ processed_skills = RefMap(skills_list)
        /\ (skills_list = ExampleSkills => processed_skills = <<NodeJs, NodeJs, Css>>)

C8_Witness ==
    /\ SkillsDone
    /\ skills_list = ExampleSkills
    /\ processed_skills = <<NodeJs, NodeJs, Css>>

\* The tokens of xs whose alias target is an excluded label.
AliasToExcluded(xs) ==
    {i \in DOMAIN xs :
        /\ lower(strip(xs[i])) \in DOMAIN skill_merge_map
        /\ lower(skill_merge_map[lower(strip(xs[i]))]) \in excluded_skills}

\* C9: exclusion is matched on the canonical label: no output token has a
\* lowercased form in excluded_skills, no output token is empty, and a token
\* whose alias target is excluded (restful, restfulapi, the C-language
\* alias) is dropped although its own lowercased spelling is not excluded.
C9_ExclusionOnCanonicalLabel ==
    SkillsDone =>
        /\ \A j \in DOMAIN processed_skills :
              /\ processed_skills[j] # << >>
              /\ lower(processed_skills[j]) \notin excluded_skills
        /\ Len(processed_skills) + Cardinality(AliasToExcluded(skills_list))
              <= Len(skills_list)

C9_Witness ==
    /\ SkillsDone
    /\ Len(skills_list) = 2
    /\ AliasToExcluded(skills_list) = {1}
    /\ lower(strip(skills_list[1])) \notin excluded_skills
    /\ Len(processed_skills) = 1

RECURSIVE Flatten(_)
Flatten(parts) ==
    IF parts = << >> THEN << >> ELSE Head(parts) \o Flatten(Tail(parts))

\* C10: process_skills is an order-preserving per-token map, not a set: the
\* output is the labels of the surviving tokens in input order, it is no
\* longer than the input, and a token or two spellings of one alias that
\* occur twice in the input occur twice in the output.
C10_OrderPreservingMap ==
    SkillsDone =>
        /\ processed_skills =
              Flatten([i \in 1..Len(skills_list) |-> process_skills(<<skills_list[i]>>)])
        /\ Len(processed_skills) <= Len(skills_list)
        /\ \A i \in DOMAIN skills_list :
              process_skills(<<skills_list[i]>>) # << >> =>
                  Cardinality({j \in DOMAIN processed_skills :
                                  <<processed_skills[j]>> = process_skills(<<skills_list[i]>>)})
                  = Cardinality({k \in DOMAIN skills_list :
                                  process_skills(<<skills_list[k]>>)
                                      = process_skills(<<skills_list[i]>>)})

C10_Witness ==
    /\ SkillsDone
    /\ Len(skills_list) = 2
    /\ skills_list[1] # skills_list[2]
    /\ processed_skills = <<NodeJs, NodeJs>>

(***************************************************************************)
(* Properties of one record                                                *)
(***************************************************************************)
RecordDone == phase = "record_done"

\* The number of commas of a string.
Commas(s) == Cardinality({i \in DOMAIN s : s[i] = ","})

Python == <<"P", "y", "t", "h", "o", "n">>

Java == <<"J", "a", "v", "a">>

\* C11: skills_count is the number of segments of the raw comma split of the
\* skill string, before trimming, alias merging or exclusion, and 0 when the
\* string is null or empty; it counts empty segments ("Python, , Java" gives
\* 3 while 2 canonical tokens are emitted) and can differ from the length of
\* the process_skills output; a null or empty string yields an empty
\* canonical sequence.
C11_SkillsCountIsRawSplit ==
    RecordDone =>
        LET s == fillna(aggregated_skills)
        IN  /\ (s = << >> => skills_count = 0 /\ processed_skills = << >>)
            /\ (s # << >> => skills_count = Commas(s) + 1)
            /\ (s # << >> => skills_count = Len(skills_list))
            /\ Len(processed_skills) <= skills_count
            /\ (aggregated_skills = Str(PythonJava) =>
                    skills_count = 3 /\ processed_skills = <<Python, Java>>)

C11_Witness ==
    /\ RecordDone
    /\ aggregated_skills = Str(PythonJava)
    /\ skills_count = 3
    /\ Len(processed_skills) = 2

(***************************************************************************)
(* Properties of the pagination                                            *)
(***************************************************************************)
\* C12: in every state reachable by reruns (selecting a lookup skill,
\* changing the search term or the city filter, pressing previous or next),
\* 0 <= page_number <= max(total_pages - 1, 0) when the page slice is taken,
\* so the page displayed is never empty while total_jobs > 0.
C12_PageNumberInRange ==
    pagination.computed =>
        /\ pagination.start_idx = page_number * page_size
        /\ 0 <= page_number
        /\ page_number <= Max(pagination.total_pages - 1, 0)
        /\ (pagination.total_jobs > 0 => PaginatedJobs(pagination) > 0)

JobsWithLabel(column, label) ==
    {i \in DOMAIN column :
        /\ notna(column[i])
        /\ \E k \in DOMAIN split(Val(column[i])) :
              process_skills(<<split(Val(column[i]))[k]>>) = <<label>>}

\* C13: for every label L the reverse-lookup selector offers, every filtered
\* job whose skill string has a token that process_skills maps to L is
\* selected by skill_in_row(row, L); hence the lookup of an offered label
\* returns at least one job.
C13_LookupFindsEveryJob ==
    phase = "lookup_done" =>
        /\ JobsWithLabel(required_skills, target_skill) \subseteq skill_lookup_df
        /\ skill_lookup_df # {}

(***************************************************************************)
(* Idempotence of process_skills                                           *)
(***************************************************************************)
\* The canonical labels of skill_merge_map.
CanonicalLabels == {skill_merge_map[k] : k \in DOMAIN skill_merge_map}

\* C15: process_skills is idempotent: process_skills(process_skills(xs)) =
\* process_skills(xs) for every token list xs; every canonical label of
\* skill_merge_map that survives exclusion and every trimmed non-alias token
\* is a fixed point of the per-token map.
C15_Idempotent ==
    SkillsDone =>
        /\ process_skills(processed_skills) = processed_skills
        /\ \A j \in DOMAIN processed_skills :
              process_skills(<<processed_skills[j]>>) = <<processed_skills[j]>>
        /\ \A l \in CanonicalLabels :
              lower(l) \notin excluded_skills => process_skills(<<l>>) = <<l>>

C15_Witness ==
    /\ SkillsDone
    /\ Len(skills_list) = 2
    /\ Len(processed_skills) = 2
    /\ processed_skills # skills_list
    /\ processed_skills[1] \in CanonicalLabels
    /\ processed_skills[2] \notin CanonicalLabels
    /\ process_skills(processed_skills) = processed_skills

=============================================================================
